---------------------------- MODULE Spec2Model ----------------------------
(***************************************************************************)
(* Model of thoth-station/graph-metrics-exporter.                          *)
(*                                                                         *)
(* One behaviour is one process invocation of one of the two entry points: *)
(*   entry = "app"  : src/app.py (click command main)                      *)
(*   entry = "gcc"  : src/graph_corruption_check.py                        *)
(* The process is single threaded; pc is the position of the interpreter   *)
(* in the script.  An exception that nothing catches ends the run with     *)
(* pc = "failed" and the exception's type in error.                        *)
(*                                                                         *)
(* The collaborators (GraphDatabase, GraphBackupStore, click, datetime,    *)
(* prometheus_client) are modelled by what the calling code relies on:     *)
(* queries return a value picked from a bounded set, push_to_gateway       *)
(* either returns or raises, Gauge.labels checks the number of label       *)
(* values, strptime accepts or rejects a token.                            *)
(*                                                                         *)
(* Strings that the code slices (backup identifiers) are sequences of      *)
(* one-character strings; all other strings are TLA+ strings.              *)
(***************************************************************************)
EXTENDS Integers, Sequences, FiniteSets, TLC

\* ------------------------------------------------------------------ bounds
MaxRows == 2        \* longest bloat result returned by the database
MaxDumps == 2       \* longest backup listing returned by the store
MaxCheckDays == 1   \* largest THOTH_GRAPH_BACKUP_CHECK_DAYS
MaxRotate == 1      \* largest GraphBackupStore.GRAPH_BACKUP_STORE_ROTATE
MaxToday == 4       \* latest current date (day ordinal)

\* ------------------------------------------------------- python primitives
None == "<None>"

Truthy(v) == v # None /\ v # ""

Range(s) == {s[i] : i \in 1..Len(s)}

\* s[n:]
Slice(s, n) == IF n >= Len(s) THEN <<>> ELSE SubSeq(s, n + 1, Len(s))

SeqsUpTo(S, n) == UNION {[1..k -> S] : k \in 0..n}

\* max() of a non-empty sequence, scanning left to right
RECURSIVE PyMaxFrom(_, _, _)
PyMaxFrom(s, i, best) ==
    IF i > Len(s) THEN best
    ELSE PyMaxFrom(s, i + 1, IF s[i] > best THEN s[i] ELSE best)

PyMaxFirst(s) == s[1]

PyMax(s) == PyMaxFrom(s, 2, s[1])

\* ------------------------------------------------------------- environment
URL_VAR == "PROMETHEUS_PUSHGATEWAY_URL"
DEP_VAR == "THOTH_DEPLOYMENT_NAME"

\* os.getenv(name): None when the variable is unset
Getenv(env, name) == IF name \in DOMAIN env THEN env[name] ELSE None

EnvValue(name) == IF name = URL_VAR THEN "pushgateway:9091" ELSE "stage"

\* os.environ of the process: each of the two variables is set or unset
Environments == {[n \in S |-> EnvValue(n)] : S \in SUBSET {URL_VAR, DEP_VAR}}

\* ------------------------------------------------------------ task catalog
CORRUPTION_CHECK == "graph_corruption_check"
TABLE_BLOAT_DATA == "graph_table_bloat_data_check"
INDEX_BLOAT_DATA == "graph_index_bloat_data_check"
DATABASE_DUMPS == "graph_database_dumps_check"

TaskEnum == <<CORRUPTION_CHECK, TABLE_BLOAT_DATA, INDEX_BLOAT_DATA, DATABASE_DUMPS>>

\* values of --task on the command line (None: option absent)
CliArgs ==
    {None, CORRUPTION_CHECK, TABLE_BLOAT_DATA, INDEX_BLOAT_DATA, DATABASE_DUMPS,
     "GRAPH_CORRUPTION_CHECK", "Graph_Database_Dumps_Check", "bogus"}

\* str.lower() on the strings of CliArgs
Lower(s) ==
    CASE s = "GRAPH_CORRUPTION_CHECK" -> "graph_corruption_check"
      [] s = "Graph_Database_Dumps_Check" -> "graph_database_dumps_check"
      [] OTHER -> s

\* click.Choice(choices, case_sensitive=False).convert(value)
ChoiceConvert(choices, value) ==
    IF \E i \in 1..Len(choices) : Lower(choices[i]) = Lower(value)
    THEN [ok |-> TRUE,
          value |-> choices[CHOOSE i \in 1..Len(choices) : Lower(choices[i]) = Lower(value)]]
    ELSE [ok |-> FALSE, value |-> None]

\* ------------------------------------------------------- prometheus_client
COMPONENT_NAME == "graph-metrics-exporter"

\* Gauge(name, help, labelnames, registry): the label schema of every gauge.
\* "gcc_graphdb_is_corrupted" is the gauge graph_corruption_check.py declares
\* (no labels); all others are the gauges of app.py, and common.py declares
\* database_schema_revision_script with the same schema.
LabelNames ==
    [g \in {"database_schema_revision_script", "graphdb_is_corrupted",
            "graphdb_pct_bloat_data_table", "graphdb_mb_bloat_data_table",
            "graphdb_pct_index_bloat_data_table", "graphdb_mb_index_bloat_data_table",
            "graphdb_dump_count", "graphdb_last_dump", "graphdb_dump_not_cleaned",
            "graphdb_dump_missed", "gcc_graphdb_is_corrupted"} |->
        CASE g = "database_schema_revision_script" -> <<"component", "revision", "env">>
          [] g = "graphdb_is_corrupted" -> <<"env">>
          [] g = "graphdb_pct_bloat_data_table" -> <<"table_name", "env">>
          [] g = "graphdb_mb_bloat_data_table" -> <<"table_name", "env">>
          [] g = "graphdb_pct_index_bloat_data_table" -> <<"table_name", "index_name", "env">>
          [] g = "graphdb_mb_index_bloat_data_table" -> <<"table_name", "index_name", "env">>
          [] g = "graphdb_dump_count" -> <<"env">>
          [] g = "graphdb_last_dump" -> <<"date", "env">>
          [] g = "graphdb_dump_not_cleaned" -> <<"env">>
          [] g = "graphdb_dump_missed" -> <<"env">>
          [] g = "gcc_graphdb_is_corrupted" -> <<>>]

\* A sample's identity: the gauge and the mapping label name -> label value,
\* the i-th positional value going to the i-th declared label name.
SampleId(g, values) ==
    [gauge |-> g,
     labels |-> [n \in Range(LabelNames[g]) |->
                    values[CHOOSE i \in 1..Len(values) : LabelNames[g][i] = n]]]

\* The interpreter state a collector threads through its statements: the
\* registry (identity -> value), the recorded operations, and the pending
\* exception (None: none).  A statement after a raise is not executed.
Frame(reg, ops) == [reg |-> reg, calls |-> ops, err |-> None]

Raise(st, exc) == IF st.err # None THEN st ELSE [st EXCEPT !.err = exc]

\* gauge.labels(*values).set(v); labels raises ValueError on a wrong count
GaugeSet(st, g, values, v) ==
    IF st.err # None THEN st
    ELSE IF Len(values) # Len(LabelNames[g]) THEN [st EXCEPT !.err = "ValueError"]
    ELSE LET id == SampleId(g, values) IN
         [reg |-> (id :> v) @@ st.reg,
          calls |-> Append(st.calls, [op |-> "set", id |-> id, value |-> v]),
          err |-> None]

\* gauge.labels(*values).inc()
GaugeInc(st, g, values) ==
    IF st.err # None THEN st
    ELSE IF Len(values) # Len(LabelNames[g]) THEN [st EXCEPT !.err = "ValueError"]
    ELSE LET id == SampleId(g, values)
             old == IF id \in DOMAIN st.reg THEN st.reg[id] ELSE 0 IN
         [reg |-> (id :> (old + 1)) @@ st.reg,
          calls |-> Append(st.calls, [op |-> "inc", id |-> id, value |-> 1]),
          err |-> None]

\* ---------------------------------------------------------------- datetime
Digits == <<"0", "1", "2", "3", "4", "5", "6", "7", "8", "9">>

IsDigit(c) == \E i \in 1..Len(Digits) : Digits[i] = c

DigitVal(c) == (CHOOSE i \in 1..Len(Digits) : Digits[i] = c) - 1

\* datetime.strptime(token, GraphBackupStore._BACKUP_FILE_DATETIME_FORMAT).
\* The format is <day ordinal, two digits> "-" <hour, one digit>; any other
\* token raises ValueError.
Strptime(tok) ==
    IF Len(tok) = 4 /\ IsDigit(tok[1]) /\ IsDigit(tok[2]) /\ tok[3] = "-" /\ IsDigit(tok[4])
    THEN [ok |-> TRUE, day |-> 10 * DigitVal(tok[1]) + DigitVal(tok[2]), hour |-> DigitVal(tok[4])]
    ELSE [ok |-> FALSE, day |-> 0, hour |-> 0]

\* datetime.date(): the time of day is dropped
DateOf(dt) == dt.day

\* str(date), as prometheus_client stores a label value
DateStr(d) == Digits[(d \div 10) + 1] \o Digits[(d % 10) + 1]

\* ------------------------------------------------------- collaborator data
PG_DUMP_PREFIX == <<"p", "g", "_", "d", "u", "m", "p", "-">>

\* identifiers GraphBackupStore.get_document_listing() may return
DumpIds ==
    {PG_DUMP_PREFIX \o <<"0", "1", "-", "0">>,
     PG_DUMP_PREFIX \o <<"0", "3", "-", "2">>,
     PG_DUMP_PREFIX \o <<"0", "x", "-", "0">>,
     <<"p", "g", "-", "b", "a", "c", "k", "-", "0", "3", "-", "5">>,
     <<"d", "u", "m", "p", "-", "0", "1", "-", "0">>}

\* rows GraphDatabase.get_bloat_data() may return
TableRows ==
    {[tablename |-> "a", pct_bloat |-> 12, mb_bloat |-> 3],
     [tablename |-> "b", pct_bloat |-> 0, mb_bloat |-> 0]}

\* rows GraphDatabase.get_index_bloat_data() may return
IndexRows ==
    {[table_name |-> "a", index_name |-> "i", bloat_pct |-> 5, bloat_mb |-> 1],
     [table_name |-> "a", index_name |-> "j", bloat_pct |-> 9, bloat_mb |-> 2]}

\* GraphDatabase().get_script_alembic_version_head()
Revisions == {"rev-1"}

\* -------------------------------------------------------------- collectors
\* app.py _create_common_metrics
create_common_metrics_app(st, dep, revision) ==
    GaugeInc(st, "database_schema_revision_script", <<COMPONENT_NAME, revision, dep>>)

\* app.py _graph_corruption_check
graph_corruption_check_app(st, dep, corrupted) ==
    IF corrupted
    THEN GaugeSet(st, "graphdb_is_corrupted", <<dep>>, 1)
    ELSE GaugeSet(st, "graphdb_is_corrupted", <<dep>>, 0)

\* the for loop of _graph_table_bloat_data, from row i on
RECURSIVE TableBloatLoop(_, _, _, _)
TableBloatLoop(st, dep, rows, i) ==
    IF i > Len(rows) THEN st
    ELSE LET pct == GaugeSet(st, "graphdb_pct_bloat_data_table",
                             <<rows[i].tablename, dep>>, rows[i].pct_bloat)
             mb == GaugeSet(pct, "graphdb_mb_bloat_data_table",
                            <<rows[i].tablename, dep>>, rows[i].mb_bloat) IN
         TableBloatLoop(mb, dep, rows, i + 1)

\* app.py _graph_table_bloat_data
graph_table_bloat_data(st, dep, rows) ==
    IF rows # <<>>
    THEN TableBloatLoop(st, dep, rows, 1)
    ELSE GaugeSet(GaugeSet(st, "graphdb_pct_bloat_data_table", <<"No table pct", dep>>, 0),
                  "graphdb_mb_bloat_data_table", <<"No table mb", dep>>, 0)

\* the for loop of _graph_index_bloat_data, from row i on
RECURSIVE IndexBloatLoop(_, _, _, _)
IndexBloatLoop(st, dep, rows, i) ==
    IF i > Len(rows) THEN st
    ELSE LET pct == GaugeSet(st, "graphdb_pct_index_bloat_data_table",
                             <<rows[i].table_name, rows[i].index_name, dep>>,
                             rows[i].bloat_pct)
             mb == GaugeSet(pct, "graphdb_mb_index_bloat_data_table",
                            <<rows[i].table_name, rows[i].index_name, dep>>,
                            rows[i].bloat_mb) IN
         IndexBloatLoop(mb, dep, rows, i + 1)

\* app.py _graph_index_bloat_data
graph_index_bloat_data(st, dep, rows) ==
    IF rows # <<>>
    THEN IndexBloatLoop(st, dep, rows, 1)
    ELSE GaugeSet(GaugeSet(st, "graphdb_pct_index_bloat_data_table",
                           <<"No table pct", dep>>, 0),
                  "graphdb_mb_index_bloat_data_table", <<"No table mb", dep>>, 0)

\* the parsing loop of _graph_database_dumps: the dates parsed so far, or
\* the ValueError of the first identifier strptime rejects
RECURSIVE ParseDumps(_, _, _)
ParseDumps(ids, i, acc) ==
    IF i > Len(ids) THEN [ok |-> TRUE, pg_dumps |-> acc]
    ELSE LET dt == Strptime(Slice(ids[i], Len(PG_DUMP_PREFIX))) IN
         IF dt.ok THEN ParseDumps(ids, i + 1, Append(acc, DateOf(dt)))
         ELSE [ok |-> FALSE, pg_dumps |-> acc]

\* pg_dumps_number > pg_dumps_expected
NotCleaned(n, expected) == n > expected

\* last_dump_date < last_expected_dump_date
Missed(last, expected) == last < expected

\* app.py _graph_database_dumps
graph_database_dumps(st, dep, ids, rotate, now, check_days) ==
    LET parsed == ParseDumps(ids, 1, <<>>) IN
    IF ~parsed.ok THEN Raise(st, "ValueError")
    ELSE LET pg_dumps == parsed.pg_dumps
             count == GaugeSet(st, "graphdb_dump_count", <<dep>>, Len(pg_dumps))
             cleaned == GaugeSet(count, "graphdb_dump_not_cleaned", <<dep>>,
                                 IF NotCleaned(Len(pg_dumps), rotate) THEN 1 ELSE 0) IN
         IF pg_dumps = <<>> THEN Raise(cleaned, "ValueError")
         ELSE LET last_dump_date == PyMax(pg_dumps)
                  last == GaugeInc(cleaned, "graphdb_last_dump",
                                   <<dep, DateStr(last_dump_date)>>)
                  last_expected_dump_date == now - check_days IN
              GaugeSet(last, "graphdb_dump_missed", <<dep>>,
                       IF Missed(last_dump_date, last_expected_dump_date) THEN 1 ELSE 0)

\* common.py create_common_metrics; warned tells whether the warning is logged
create_common_metrics(st, dep, revision) ==
    IF Truthy(dep)
    THEN [st |-> GaugeInc(st, "database_schema_revision_script",
                          <<COMPONENT_NAME, revision, dep>>),
          warned |-> FALSE]
    ELSE [st |-> st, warned |-> TRUE]

\* common.py send_metrics: whether push_to_gateway is called
SendAttempts(url, dep) == Truthy(url) /\ Truthy(dep)

\* ------------------------------------------------------------------- state
VARIABLES
    entry,              \* which script runs: "app" or "gcc"
    environ,            \* os.environ
    argv,               \* value of --task on the command line, or None
    pc,                 \* position of the interpreter
    error,              \* type of the uncaught exception, or None
    THOTH_METRICS_PUSHGATEWAY_URL,
    THOTH_DEPLOYMENT_NAME,
    GRAPH_BACKUP_CHECK_DATE,
    GRAPH_BACKUP_STORE_ROTATE,
    task,               \* parameter of main
    registry,           \* PROMETHEUS_REGISTRY: sample identity -> value
    calls,              \* the set/inc operations recorded, in order
    events,             \* collector calls, returns, raises and pushes, in order
    log,                \* warnings, the push error and the completion lines
    is_corrupted,       \* result of graph.is_database_corrupted()
    bloat_data,         \* result of graph.get_bloat_data()
    index_bloat_data,   \* result of graph.get_index_bloat_data()
    listing,            \* result of adapter.get_document_listing()
    today,              \* datetime.utcnow().date()
    pushed              \* what push_to_gateway delivered, or None

vars ==
    <<entry, environ, argv, pc, error, THOTH_METRICS_PUSHGATEWAY_URL,
      THOTH_DEPLOYMENT_NAME, GRAPH_BACKUP_CHECK_DATE, GRAPH_BACKUP_STORE_ROTATE,
      task, registry, calls, events, log, is_corrupted, bloat_data,
      index_bloat_data, listing, today, pushed>>

config == <<THOTH_METRICS_PUSHGATEWAY_URL, THOTH_DEPLOYMENT_NAME,
            GRAPH_BACKUP_CHECK_DATE, GRAPH_BACKUP_STORE_ROTATE>>

inputs == <<entry, environ, argv>>

results == <<is_corrupted, bloat_data, index_bloat_data, listing, today>>

Init ==
    /\ entry \in {"app", "gcc"}
    /\ environ \in Environments
    /\ argv \in (IF entry = "app" THEN CliArgs ELSE {None})
    /\ pc = "start"
    /\ error = None
    /\ THOTH_METRICS_PUSHGATEWAY_URL = None
    /\ THOTH_DEPLOYMENT_NAME = None
    /\ GRAPH_BACKUP_CHECK_DATE = 0
    /\ GRAPH_BACKUP_STORE_ROTATE = 0
    /\ task = None
    /\ registry = <<>>
    /\ calls = <<>>
    /\ events = <<>>
    /\ log = <<>>
    /\ is_corrupted = FALSE
    /\ bloat_data = <<>>
    /\ index_bloat_data = <<>>
    /\ listing = <<>>
    /\ today = 0
    /\ pushed = None

\* The statements of main after the connections are made, in source order
MainStatementsPushEarly ==
    <<"if_corruption", "if_table_bloat", "if_index_bloat", "send_metrics",
      "if_database_dumps", "log_finished", "done">>

MainStatements ==
    <<"if_corruption", "if_table_bloat", "if_index_bloat", "if_database_dumps",
      "send_metrics", "log_finished", "done">>

MainAfter(p) ==
    MainStatements[(CHOOSE i \in 1..Len(MainStatements) : MainStatements[i] = p) + 1]

\* A collector called from main returned st: commit what it recorded, and
\* either go on to the next statement or end the run with its exception.
Collected(name, st) ==
    /\ registry' = st.reg
    /\ calls' = st.calls
    /\ IF st.err = None
       THEN /\ events' = events \o <<<<"call", name>>, <<"return", name>>>>
            /\ pc' = MainAfter(pc)
            /\ error' = error
       ELSE /\ events' = events \o <<<<"call", name>>, <<"raise", name>>>>
            /\ pc' = "failed"
            /\ error' = st.err

Skipped ==
    /\ pc' = MainAfter(pc)
    /\ UNCHANGED <<registry, calls, events, error>>

\* app.py module level: os.environ[...] raises KeyError for an unset variable
AppImport ==
    /\ pc = "start" /\ entry = "app"
    /\ IF URL_VAR \in DOMAIN environ /\ DEP_VAR \in DOMAIN environ
       THEN /\ THOTH_METRICS_PUSHGATEWAY_URL' = environ[URL_VAR]
            /\ THOTH_DEPLOYMENT_NAME' = environ[DEP_VAR]
            /\ GRAPH_BACKUP_CHECK_DATE' \in 0..MaxCheckDays
            /\ GRAPH_BACKUP_STORE_ROTATE' \in 1..MaxRotate
            /\ pc' = "cli"
            /\ error' = error
       ELSE /\ pc' = "failed"
            /\ error' = "KeyError"
            /\ UNCHANGED config
    /\ UNCHANGED <<inputs, task, registry, calls, events, log, results, pushed>>

\* click parses --task before main's body runs
ClickParse ==
    /\ pc = "cli"
    /\ IF argv = None
       THEN task' = None /\ pc' = "create_common" /\ error' = error
       ELSE LET c == ChoiceConvert(TaskEnum, argv) IN
            IF c.ok
            THEN task' = c.value /\ pc' = "create_common" /\ error' = error
            ELSE task' = task /\ pc' = "usage_error" /\ error' = "UsageError"
    /\ UNCHANGED <<inputs, config, registry, calls, events, log, results, pushed>>

AppCreateCommonMetrics ==
    /\ pc = "create_common" /\ entry = "app"
    /\ \E rev \in Revisions :
         LET st == create_common_metrics_app(Frame(registry, calls),
                                             THOTH_DEPLOYMENT_NAME, rev) IN
         registry' = st.reg /\ calls' = st.calls
    /\ pc' = "connect"
    /\ UNCHANGED <<inputs, config, task, events, log, results, pushed, error>>

\* graph.connect(); adapter.connect()
Connect ==
    /\ pc = "connect"
    /\ pc' = MainStatements[1]
    /\ UNCHANGED <<inputs, config, task, registry, calls, events, log, results,
                   pushed, error>>

IfCorruption ==
    /\ pc = "if_corruption"
    /\ IF task = CORRUPTION_CHECK \/ ~Truthy(task)
       THEN \E c \in BOOLEAN :
              /\ is_corrupted' = c
              /\ Collected(CORRUPTION_CHECK,
                           graph_corruption_check_app(Frame(registry, calls),
                                                      THOTH_DEPLOYMENT_NAME, c))
       ELSE Skipped /\ UNCHANGED is_corrupted
    /\ UNCHANGED <<inputs, config, task, log, bloat_data, index_bloat_data,
                   listing, today, pushed>>

IfTableBloat ==
    /\ pc = "if_table_bloat"
    /\ IF task = TABLE_BLOAT_DATA \/ ~Truthy(task)
       THEN \E rows \in SeqsUpTo(TableRows, MaxRows) :
              /\ bloat_data' = rows
              /\ Collected(TABLE_BLOAT_DATA,
                           graph_table_bloat_data(Frame(registry, calls),
                                                  THOTH_DEPLOYMENT_NAME, rows))
       ELSE Skipped /\ UNCHANGED bloat_data
    /\ UNCHANGED <<inputs, config, task, log, is_corrupted, index_bloat_data,
                   listing, today, pushed>>

IfIndexBloat ==
    /\ pc = "if_index_bloat"
    /\ IF task = INDEX_BLOAT_DATA \/ ~Truthy(task)
       THEN \E rows \in SeqsUpTo(IndexRows, MaxRows) :
              /\ index_bloat_data' = rows
              /\ Collected(INDEX_BLOAT_DATA,
                           graph_index_bloat_data(Frame(registry, calls),
                                                  THOTH_DEPLOYMENT_NAME, rows))
       ELSE Skipped /\ UNCHANGED index_bloat_data
    /\ UNCHANGED <<inputs, config, task, log, is_corrupted, bloat_data,
                   listing, today, pushed>>

IfDatabaseDumps ==
    /\ pc = "if_database_dumps"
    /\ IF task = DATABASE_DUMPS \/ ~Truthy(task)
       THEN \E ids \in SeqsUpTo(DumpIds, MaxDumps), now \in (MaxToday - 1)..MaxToday :
              /\ listing' = ids
              /\ today' = now
              /\ Collected(DATABASE_DUMPS,
                           graph_database_dumps(Frame(registry, calls),
                                                THOTH_DEPLOYMENT_NAME, ids,
                                                GRAPH_BACKUP_STORE_ROTATE, now,
                                                GRAPH_BACKUP_CHECK_DATE))
       ELSE Skipped /\ UNCHANGED <<listing, today>>
    /\ UNCHANGED <<inputs, config, task, log, is_corrupted, bloat_data,
                   index_bloat_data, pushed>>

\* app.py _send_metrics without its try/except
AppSendMetricsNoCatch ==
    /\ pc = "send_metrics"
    /\ \E outcome \in {"ok", "raise"} :
         /\ events' = Append(events, <<"push", outcome>>)
         /\ IF outcome = "ok"
            THEN pushed' = registry /\ pc' = MainAfter(pc) /\ error' = error
            ELSE pushed' = pushed /\ pc' = "failed" /\ error' = "Exception"
    /\ UNCHANGED <<inputs, config, task, registry, calls, log, results>>

\* app.py _send_metrics: push_to_gateway returns or raises; a raise is logged
AppSendMetrics ==
    /\ pc = "send_metrics"
    /\ \E outcome \in {"ok", "raise"} :
         /\ events' = Append(events, <<"push", outcome>>)
         /\ IF outcome = "ok"
            THEN pushed' = registry /\ log' = log
            ELSE pushed' = pushed
                 /\ log' = Append(log, "exception: An error occurred pushing the metrics")
    /\ pc' = MainAfter(pc)
    /\ UNCHANGED <<inputs, config, task, registry, calls, results, error>>

AppLogFinished ==
    /\ pc = "log_finished"
    /\ log' = Append(log, "info: Graph metrics exporter finished.")
    /\ pc' = MainAfter(pc)
    /\ UNCHANGED <<inputs, config, task, registry, calls, events, results,
                   pushed, error>>

\* configuration.py: os.getenv leaves an unset variable None
GccImport ==
    /\ pc = "start" /\ entry = "gcc"
    /\ THOTH_METRICS_PUSHGATEWAY_URL' = Getenv(environ, URL_VAR)
    /\ THOTH_DEPLOYMENT_NAME' = Getenv(environ, DEP_VAR)
    /\ pc' = "gcc_create_common"
    /\ UNCHANGED <<inputs, GRAPH_BACKUP_CHECK_DATE, GRAPH_BACKUP_STORE_ROTATE,
                   task, registry, calls, events, log, results, pushed, error>>

GccCreateCommonMetrics ==
    /\ pc = "gcc_create_common"
    /\ \E rev \in Revisions :
         LET r == create_common_metrics(Frame(registry, calls),
                                        THOTH_DEPLOYMENT_NAME, rev) IN
         /\ registry' = r.st.reg
         /\ calls' = r.st.calls
         /\ log' = IF r.warned
                   THEN Append(log, "warning: THOTH_DEPLOYMENT_NAME env variable is not set.")
                   ELSE log
    /\ pc' = "gcc_check"
    /\ UNCHANGED <<inputs, config, task, events, results, pushed, error>>

\* graph_corruption_check.py lines 48-55
GccCheck ==
    /\ pc = "gcc_check"
    /\ \E c \in BOOLEAN :
         LET st == GaugeSet(Frame(registry, calls), "gcc_graphdb_is_corrupted",
                            <<>>, IF c THEN 1 ELSE 0) IN
         /\ is_corrupted' = c
         /\ registry' = st.reg
         /\ calls' = st.calls
    /\ events' = events \o <<<<"call", CORRUPTION_CHECK>>, <<"return", CORRUPTION_CHECK>>>>
    /\ log' = Append(log, "info: Graph metrics exporter task finished.")
    /\ pc' = "gcc_send_metrics"
    /\ UNCHANGED <<inputs, config, task, bloat_data, index_bloat_data, listing,
                   today, pushed, error>>

\* common.py send_metrics
GccSendMetrics ==
    /\ pc = "gcc_send_metrics"
    /\ IF SendAttempts(THOTH_METRICS_PUSHGATEWAY_URL, THOTH_DEPLOYMENT_NAME)
       THEN \E outcome \in {"ok", "raise"} :
              /\ events' = Append(events, <<"push", outcome>>)
              /\ IF outcome = "ok"
                 THEN pushed' = registry /\ log' = log
                 ELSE pushed' = pushed
                      /\ log' = Append(log, "exception: An error occurred pushing the metrics")
       ELSE /\ log' = Append(log, "warning: PROMETHEUS_PUSHGATEWAY_URL env variable is not set.")
            /\ UNCHANGED <<events, pushed>>
    /\ pc' = "gcc_log_sent"
    /\ UNCHANGED <<inputs, config, task, registry, calls, results, error>>

GccLogSent ==
    /\ pc = "gcc_log_sent"
    /\ log' = Append(log, "info: Graph metrics exporter metrics for graph corruption check sent.")
    /\ pc' = "done"
    /\ UNCHANGED <<inputs, config, task, registry, calls, events, results,
                   pushed, error>>

Next ==
    \/ AppImport
    \/ ClickParse
    \/ AppCreateCommonMetrics
    \/ Connect
    \/ IfCorruption
    \/ IfTableBloat
    \/ IfIndexBloat
    \/ IfDatabaseDumps
    \/ AppSendMetrics
    \/ AppLogFinished
    \/ GccImport
    \/ GccCreateCommonMetrics
    \/ GccCheck
    \/ GccSendMetrics
    \/ GccLogSent

Spec == Init /\ [][Next]_vars

\* ------------------------------------------------- vocabulary of the claims
HasPrefix(s, p) == Len(s) >= Len(p) /\ SubSeq(s, 1, Len(p)) = p

HasEvent(e) == \E i \in 1..Len(events) : events[i] = e

Called(name) == HasEvent(<<"call", name>>)

Returned(name) == HasEvent(<<"return", name>>)

CalledSet == {events[i][2] : i \in {j \in 1..Len(events) : events[j][1] = "call"}}

PushIndexes == {i \in 1..Len(events) : events[i][1] = "push"}

PushRaised == HasEvent(<<"push", "raise">>)

Logged(line) == \E i \in 1..Len(log) : log[i] = line

Catalog == {CORRUPTION_CHECK, TABLE_BLOAT_DATA, INDEX_BLOAT_DATA, DATABASE_DUMPS}

CatalogRank(name) ==
    CASE name = "graph_corruption_check" -> 1
      [] name = "graph_table_bloat_data_check" -> 2
      [] name = "graph_index_bloat_data_check" -> 3
      [] name = "graph_database_dumps_check" -> 4

SelectedBy(t) == IF t = None THEN Catalog ELSE {t}

SamplesOf(g) == {id \in DOMAIN registry : id.gauge = g}

DumpGauges ==
    {"graphdb_dump_count", "graphdb_dump_not_cleaned", "graphdb_last_dump",
     "graphdb_dump_missed"}

WellFormed(id) ==
    /\ HasPrefix(id, PG_DUMP_PREFIX)
    /\ Strptime(Slice(id, Len(PG_DUMP_PREFIX))).ok

ListingDays == {Strptime(Slice(listing[i], Len(PG_DUMP_PREFIX))).day : i \in 1..Len(listing)}

LatestDay == CHOOSE d \in ListingDays : \A e \in ListingDays : e <= d

EnvSample(g) == [gauge |-> g, labels |-> [env |-> THOTH_DEPLOYMENT_NAME]]

\* main's body ran until it returned or raised
MainEnded == entry = "app" /\ (pc = "done" \/ (pc = "failed" /\ error # "KeyError"))

\* ------------------------------------------------------------------ claims

\* C1: in every run in which push_to_gateway raises, the publish step logs
\* the exception and returns, no exception ends the run, and the caller is
\* at or past its completion log line; once done, that line is the last one
\* logged.
C1_PushFailureRecovered ==
    PushRaised =>
        /\ error = None
        /\ Logged("exception: An error occurred pushing the metrics")
        /\ pc \in {"log_finished", "gcc_log_sent", "done"}
        /\ (pc = "done" /\ entry = "app" =>
                log[Len(log)] = "info: Graph metrics exporter finished.")
        /\ (pc = "done" /\ entry = "gcc" =>
                log[Len(log)] = "info: Graph metrics exporter metrics for graph corruption check sent.")

C1_Witness == PushRaised /\ pc = "done" /\ entry = "app"

\* C2: in a run of main the collectors are called in the catalog order
\* (corruption, table bloat, index bloat, dumps), the push is attempted at
\* most once, every selected collector has returned before it, and no
\* collector is called after it.
C2_OrderAndSinglePush ==
    entry = "app" =>
        /\ \A i, j \in 1..Len(events) :
             (i < j /\ events[i][1] = "call" /\ events[j][1] = "call")
                => CatalogRank(events[i][2]) < CatalogRank(events[j][2])
        /\ Cardinality(PushIndexes) <= 1
        /\ \A p \in PushIndexes :
             /\ \A c \in SelectedBy(task) :
                  \E j \in 1..(p - 1) : events[j] = <<"return", c>>
             /\ \A j \in (p + 1)..Len(events) : events[j][1] # "call"

C2_Witness ==
    entry = "app" /\ pc = "done" /\ task = None /\ Cardinality(PushIndexes) = 1
    /\ CalledSet = Catalog

\* C3: with no task name all four collectors run; with a name matching a
\* catalog value (ignoring case) exactly that collector runs; any other name
\* is a usage error before any collector runs or anything is pushed.
C3_TaskSelection ==
    entry = "app" =>
        /\ (MainEnded /\ argv = None => CalledSet = Catalog)
        /\ (MainEnded /\ argv # None => CalledSet = {Lower(argv)})
        /\ (argv # None /\ Lower(argv) \notin Catalog =>
                pc \in {"start", "cli", "usage_error", "failed"} /\ events = <<>>)

\* C4: a listing with an identifier that lacks the prefix "pg_dump-" or whose
\* remainder is no date makes the dumps collector fail with the parse error,
\* records none of the four dump gauges and is followed by no push.
C4_MalformedListingFails ==
    (Called(DATABASE_DUMPS) /\ \E i \in 1..Len(listing) : ~WellFormed(listing[i])) =>
        /\ pc = "failed" /\ error = "ValueError"
        /\ \A g \in DumpGauges : SamplesOf(g) = {}
        /\ PushIndexes = {}

\* C5: on an empty listing the dumps collector returns normally with the
\* dump-missed gauge set to 1 and the run does not fail.
C5_EmptyListingIsMissed ==
    (Called(DATABASE_DUMPS) /\ listing = <<>>) =>
        /\ pc # "failed"
        /\ Returned(DATABASE_DUMPS)
        /\ EnvSample("graphdb_dump_missed") \in DOMAIN registry
        /\ registry[EnvSample("graphdb_dump_missed")] = 1

\* C6: with the pushgateway endpoint unset, either entry point runs without
\* failing, never calls the push client, and its publish step has logged the
\* warning by the time the run is done.
C6_UnsetEndpointDegrades ==
    URL_VAR \notin DOMAIN environ =>
        /\ pc # "failed"
        /\ PushIndexes = {}
        /\ (pc = "done" =>
                Logged("warning: PROMETHEUS_PUSHGATEWAY_URL env variable is not set."))

\* C7: with the deployment name unset, graph_corruption_check warns and does
\* not fail, skips only the schema-revision metric, still records the health
\* check, and still pushes the recorded samples when the endpoint is set.
C7_UnsetDeploymentStillPushes ==
    (entry = "gcc" /\ DEP_VAR \notin DOMAIN environ) =>
        /\ pc # "failed"
        /\ SamplesOf("database_schema_revision_script") = {}
        /\ (pc = "done" =>
              /\ Logged("warning: THOTH_DEPLOYMENT_NAME env variable is not set.")
              /\ SamplesOf("gcc_graphdb_is_corrupted") # {}
              /\ (URL_VAR \in DOMAIN environ =>
                      Cardinality(PushIndexes) = 1))

\* What C8 asks of one bloat collector: on an empty result exactly one sample
\* per gauge, valued 0 under the sentinel table label; otherwise a SET of
\* both gauges per row under the row's labels, and no sentinel sample.
BloatRecorded(name, rows, pctGauge, mbGauge, pctIds, mbIds, pctVals, mbVals) ==
    Called(name) =>
        /\ Returned(name)
        /\ IF rows = <<>>
           THEN /\ Cardinality(SamplesOf(pctGauge)) = 1
                /\ Cardinality(SamplesOf(mbGauge)) = 1
                /\ \A id \in SamplesOf(pctGauge) :
                     id.labels.table_name = "No table pct" /\ registry[id] = 0
                /\ \A id \in SamplesOf(mbGauge) :
                     id.labels.table_name = "No table mb" /\ registry[id] = 0
           ELSE /\ \A i \in 1..Len(rows) :
                     /\ \E k \in 1..Len(calls) :
                          calls[k] = [op |-> "set", id |-> pctIds[i], value |-> pctVals[i]]
                     /\ \E k \in 1..Len(calls) :
                          calls[k] = [op |-> "set", id |-> mbIds[i], value |-> mbVals[i]]
                /\ \A id \in SamplesOf(pctGauge) \cup SamplesOf(mbGauge) :
                     id.labels.table_name \notin {"No table pct", "No table mb"}

\* C8: TableBloatCheck and IndexBloatCheck record the sentinel samples on an
\* empty result and one SET per gauge and row otherwise.
C8_BloatSamples ==
    /\ BloatRecorded(TABLE_BLOAT_DATA, bloat_data,
                     "graphdb_pct_bloat_data_table", "graphdb_mb_bloat_data_table",
                     [i \in 1..Len(bloat_data) |->
                        [gauge |-> "graphdb_pct_bloat_data_table",
                         labels |-> [table_name |-> bloat_data[i].tablename,
                                     env |-> THOTH_DEPLOYMENT_NAME]]],
                     [i \in 1..Len(bloat_data) |->
                        [gauge |-> "graphdb_mb_bloat_data_table",
                         labels |-> [table_name |-> bloat_data[i].tablename,
                                     env |-> THOTH_DEPLOYMENT_NAME]]],
                     [i \in 1..Len(bloat_data) |-> bloat_data[i].pct_bloat],
                     [i \in 1..Len(bloat_data) |-> bloat_data[i].mb_bloat])
    /\ BloatRecorded(INDEX_BLOAT_DATA, index_bloat_data,
                     "graphdb_pct_index_bloat_data_table",
                     "graphdb_mb_index_bloat_data_table",
                     [i \in 1..Len(index_bloat_data) |->
                        [gauge |-> "graphdb_pct_index_bloat_data_table",
                         labels |-> [table_name |-> index_bloat_data[i].table_name,
                                     index_name |-> index_bloat_data[i].index_name,
                                     env |-> THOTH_DEPLOYMENT_NAME]]],
                     [i \in 1..Len(index_bloat_data) |->
                        [gauge |-> "graphdb_mb_index_bloat_data_table",
                         labels |-> [table_name |-> index_bloat_data[i].table_name,
                                     index_name |-> index_bloat_data[i].index_name,
                                     env |-> THOTH_DEPLOYMENT_NAME]]],
                     [i \in 1..Len(index_bloat_data) |-> index_bloat_data[i].bloat_pct],
                     [i \in 1..Len(index_bloat_data) |-> index_bloat_data[i].bloat_mb])

\* C9: on a non-empty listing of well-formed identifiers the dumps collector
\* returns with count = number of identifiers, not_cleaned = 1 exactly when
\* count > retention, the last dump date = the latest parsed date whatever
\* the order of the listing, and missed = 1 exactly when that date is
\* strictly before today minus the freshness window.
C9_DumpGauges ==
    (Called(DATABASE_DUMPS) /\ listing # <<>>
        /\ \A i \in 1..Len(listing) : WellFormed(listing[i])) =>
        /\ Returned(DATABASE_DUMPS)
        /\ \A g \in {"graphdb_dump_count", "graphdb_dump_not_cleaned",
                     "graphdb_dump_missed"} : EnvSample(g) \in DOMAIN registry
        /\ registry[EnvSample("graphdb_dump_count")] = Len(listing)
        /\ registry[EnvSample("graphdb_dump_not_cleaned")] =
              (IF Len(listing) > GRAPH_BACKUP_STORE_ROTATE THEN 1 ELSE 0)
        /\ \A id \in SamplesOf("graphdb_last_dump") :
              \E n \in DOMAIN id.labels : id.labels[n] = DateStr(LatestDay)
        /\ Cardinality(SamplesOf("graphdb_last_dump")) = 1
        /\ registry[EnvSample("graphdb_dump_missed")] =
              (IF LatestDay < today - GRAPH_BACKUP_CHECK_DATE THEN 1 ELSE 0)

C9_Witness ==
    /\ Returned(DATABASE_DUMPS)
    /\ Len(listing) = 2
    /\ WellFormed(listing[1]) /\ WellFormed(listing[2])
    /\ Strptime(Slice(listing[1], Len(PG_DUMP_PREFIX))).day
         > Strptime(Slice(listing[2], Len(PG_DUMP_PREFIX))).day
    /\ Len(listing) > GRAPH_BACKUP_STORE_ROTATE
    /\ LatestDay < today - GRAPH_BACKUP_CHECK_DATE
    /\ pc = "done"

\* C10: a successful dumps collector increments the last-dump gauge exactly
\* once, on the sample whose "date" label is the last dump date and whose
\* "env" label is the deployment name, and that sample's value is 1.
C10_LastDumpLabels ==
    Returned(DATABASE_DUMPS) =>
        LET incs == {k \in 1..Len(calls) :
                        calls[k].op = "inc" /\ calls[k].id.gauge = "graphdb_last_dump"} IN
        /\ Cardinality(incs) = 1
        /\ \A k \in incs :
             /\ calls[k].id.labels["date"] = DateStr(LatestDay)
             /\ calls[k].id.labels["env"] = THOTH_DEPLOYMENT_NAME
             /\ registry[calls[k].id] = 1

=============================================================================
